---------------------------- MODULE Spec2Model ----------------------------
(***************************************************************************)
(* scripts/analyzer.py: the tweak configuration generator.                 *)
(*                                                                         *)
(* Python strings whose characters matter (repository references, tweak    *)
(* identifiers, header names) are tuples of one-character strings, so that *)
(* split, replace, lower and the ordering used by sort are computed        *)
(* character by character.  Opaque strings (commands, URLs, reasons) are   *)
(* TLA+ strings.                                                           *)
(***************************************************************************)
EXTENDS Integers, Sequences, FiniteSets, TLC

VARIABLES
    pc,             \* position of the running function
    repo,           \* normalize_id: its argument
    norm_once,      \* normalize_id(repo)
    norm_twice,     \* normalize_id(normalize_id(repo))
    configs,        \* the list of configuration records
    graph,          \* topological_sort: id -> set of dependency names
    all_ids,        \* topological_sort: the set of record ids
    in_degree,      \* topological_sort: id -> number of unprocessed dependencies
    queue,          \* topological_sort: the frontier (a list)
    result,         \* topological_sort: the ordering built by the loop
    ret,            \* topological_sort: the returned list
    warned,         \* topological_sort: the circular-dependency warning was printed
    enq,            \* history: id -> how many times it was appended to queue
    out,            \* history: id -> how many times it was appended to result
    required_headers, \* collect_all_headers: the returned list
    header_config,  \* main: header -> location
    file_exists,    \* main: os.path.exists(CONFIG_PATH)
    disk,           \* main: the document stored in config.json
    disk0,          \* history: the document config.json held when main started
    tweakslist,     \* main: the reference list being processed
    skipped,        \* main: the (repo, reason) pairs filtered out
    build_order,    \* main: the list returned by topological_sort
    exit_status,    \* main: the process exit status, -1 while it runs
    raised          \* history: analyze_tweak raised an exception

vars == <<pc, repo, norm_once, norm_twice, configs, graph, all_ids, in_degree,
          queue, result, ret, warned, enq, out, required_headers, header_config,
          file_exists, disk, disk0, tweakslist, skipped, build_order,
          exit_status, raised>>

nvars == <<repo, norm_once, norm_twice>>
tvars == <<graph, all_ids, in_degree, queue, result, ret, warned, enq, out>>
hvars == <<required_headers, header_config>>
mvars == <<file_exists, disk, disk0, tweakslist, skipped, build_order,
           exit_status, raised>>

-----------------------------------------------------------------------------
(* Bounds of the model.                                                    *)

\* longest repository reference given to normalize_id
MaxLen == 3

\* longest list of records given to topological_sort
MaxConfigs == 3

\* the same, when a depends_on list may repeat a name or be in any order
MaxDupConfigs == 2

\* longest list of records given to collect_all_headers
MaxHdrCfgs == 2

\* longest tweakslist read by main
MaxTweaks == 3

-----------------------------------------------------------------------------
(* Python values.                                                          *)

Range(s) == {s[i] : i \in DOMAIN s}

\* dict.get(key, default)
Get(d, k, default) == IF k \in DOMAIN d THEN d[k] ELSE default

\* the empty dict
EmptyDict == <<>>

\* ord(): the code points of the characters the model uses
Ord ==
    ("-" :> 45) @@ ("." :> 46) @@ ("/" :> 47) @@ ("0" :> 48) @@ ("1" :> 49) @@
    ("2" :> 50) @@ ("3" :> 51) @@ ("4" :> 52) @@ ("5" :> 53) @@ ("6" :> 54) @@
    ("7" :> 55) @@ ("8" :> 56) @@ ("9" :> 57) @@ ("A" :> 65) @@ ("B" :> 66) @@
    ("C" :> 67) @@ ("D" :> 68) @@ ("E" :> 69) @@ ("F" :> 70) @@ ("G" :> 71) @@
    ("H" :> 72) @@ ("I" :> 73) @@ ("J" :> 74) @@ ("K" :> 75) @@ ("L" :> 76) @@
    ("M" :> 77) @@ ("N" :> 78) @@ ("O" :> 79) @@ ("P" :> 80) @@ ("Q" :> 81) @@
    ("R" :> 82) @@ ("S" :> 83) @@ ("T" :> 84) @@ ("U" :> 85) @@ ("V" :> 86) @@
    ("W" :> 87) @@ ("X" :> 88) @@ ("Y" :> 89) @@ ("Z" :> 90) @@ ("_" :> 95) @@
    ("a" :> 97) @@ ("b" :> 98) @@ ("c" :> 99) @@ ("d" :> 100) @@ ("e" :> 101) @@
    ("f" :> 102) @@ ("g" :> 103) @@ ("h" :> 104) @@ ("i" :> 105) @@ ("j" :> 106) @@
    ("k" :> 107) @@ ("l" :> 108) @@ ("m" :> 109) @@ ("n" :> 110) @@ ("o" :> 111) @@
    ("p" :> 112) @@ ("q" :> 113) @@ ("r" :> 114) @@ ("s" :> 115) @@ ("t" :> 116) @@
    ("u" :> 117) @@ ("v" :> 118) @@ ("w" :> 119) @@ ("x" :> 120) @@ ("y" :> 121) @@
    ("z" :> 122)

\* chr()
Chr(n) == CHOOSE c \in DOMAIN Ord : Ord[c] = n

\* str.lower() on one character: 'A'..'Z' move to 'a'..'z'
LowerChar(c) == IF Ord[c] \in 65..90 THEN Chr(Ord[c] + 32) ELSE c

\* str.lower()
Lower(s) == [i \in 1..Len(s) |-> LowerChar(s[i])]

\* str.replace(ch, ""): every occurrence of the character ch is removed
RECURSIVE Remove(_, _)
Remove(s, ch) ==
    IF s = <<>> THEN <<>>
    ELSE IF Head(s) = ch THEN Remove(Tail(s), ch)
    ELSE <<Head(s)>> \o Remove(Tail(s), ch)

\* str.split("/")[-1]: what follows the last "/", the whole string if there is none
SplitLast(s) ==
    LET slashes == {i \in 1..Len(s) : s[i] = "/"}
        last    == IF slashes = {} THEN 0
                   ELSE CHOOSE i \in slashes : \A j \in slashes : j <= i
    IN  SubSeq(s, last + 1, Len(s))

\* s < t for Python strings: code point by code point, a proper prefix first
StrLess(s, t) ==
    \E k \in 1..Len(t) :
        /\ \A j \in 1..(k - 1) : j <= Len(s) /\ s[j] = t[j]
        /\ \/ k = Len(s) + 1
           \/ k <= Len(s) /\ Ord[s[k]] < Ord[t[k]]

\* min() of a non-empty set of strings
StrMin(S) == CHOOSE m \in S : \A x \in S : x = m \/ StrLess(m, x)

\* sorted(set of strings)
RECURSIVE Sorted(_)
Sorted(S) ==
    IF S = {} THEN <<>>
    ELSE LET m == StrMin(S) IN <<m>> \o Sorted(S \ {m})

\* the list q without its element at position i
DropAt(q, i) == SubSeq(q, 1, i - 1) \o SubSeq(q, i + 1, Len(q))

\* list.sort() of a list of strings (equal elements are kept)
RECURSIVE SortList(_)
SortList(q) ==
    IF q = <<>> THEN <<>>
    ELSE LET i == CHOOSE k \in 1..Len(q) :
                      \A j \in 1..Len(q) : q[j] = q[k] \/ StrLess(q[k], q[j])
         IN  <<q[i]>> \o SortList(DropAt(q, i))

\* the orders in which a set can be iterated: Python fixes none for a set of str
IterOrders(S) == {q \in [1..Cardinality(S) -> S] : Range(q) = S}

-----------------------------------------------------------------------------
(* The static tables.                                                      *)

DEFAULT_BUILD_CMD == "make clean package DEBUG=0 FINALPACKAGE=1"

KNOWN_DEPENDENCIES ==
    (<<"y","o","u","p","i","p">>       :> << <<"y","t","v","i","d","e","o","o","v","e","r","l","a","y">> >>) @@
    (<<"y","o","u","t","i","m","e","s","t","a","m","p">> :> << <<"y","t","v","i","d","e","o","o","v","e","r","l","a","y">> >>) @@
    (<<"y","o","u","q","u","a","l","i","t","y">>   :> << <<"y","t","v","i","d","e","o","o","v","e","r","l","a","y">> >>) @@
    (<<"y","o","u","m","u","t","e">>      :> << <<"y","t","v","i","d","e","o","o","v","e","r","l","a","y">> >>) @@
    (<<"y","o","u","s","p","e","e","d">>     :> << <<"y","t","v","i","d","e","o","o","v","e","r","l","a","y">> >>)

HEADER_DEPENDENCIES ==
    (<<"y","t","l","i","t","e">>                :> << <<"Y","o","u","T","u","b","e","H","e","a","d","e","r">>, <<"P","S","H","e","a","d","e","r">> >>) @@
    (<<"y","o","u","t","i","m","e","s","t","a","m","p">>          :> << <<"Y","o","u","T","u","b","e","H","e","a","d","e","r">> >>) @@
    (<<"y","o","u","p","i","p">>                :> << <<"Y","o","u","T","u","b","e","H","e","a","d","e","r">> >>) @@
    (<<"y","o","u","q","u","a","l","i","t","y">>            :> << <<"Y","o","u","T","u","b","e","H","e","a","d","e","r">> >>) @@
    (<<"y","o","u","m","u","t","e">>               :> << <<"Y","o","u","T","u","b","e","H","e","a","d","e","r">> >>) @@
    (<<"y","o","u","s","p","e","e","d">>              :> << <<"Y","o","u","T","u","b","e","H","e","a","d","e","r">> >>) @@
    (<<"y","t","v","i","d","e","o","o","v","e","r","l","a","y">>        :> << <<"Y","o","u","T","u","b","e","H","e","a","d","e","r">> >>) @@
    (<<"r","e","t","u","r","n","y","o","u","t","u","b","e","d","i","s","l","i","k","e","s">> :> << <<"Y","o","u","T","u","b","e","H","e","a","d","e","r">> >>) @@
    (<<"y","t","u","h","d">>                 :> << <<"Y","o","u","T","u","b","e","H","e","a","d","e","r">> >>) @@
    (<<"y","o","u","t","u","b","e","e","x","t","e","n","s","i","o","n","s">>     :> << <<"Y","o","u","T","u","b","e","H","e","a","d","e","r">>, <<"P","S","H","e","a","d","e","r">> >>) @@
    (<<"o","p","e","n","y","o","u","t","u","b","e","s","a","f","a","r","i","e","x","t","e","n","s","i","o","n">> :> << <<"Y","o","u","T","u","b","e","H","e","a","d","e","r">> >>) @@
    (<<"d","o","n","t","e","a","t","m","y","c","o","n","t","e","n","t">>      :> << <<"Y","o","u","T","u","b","e","H","e","a","d","e","r">>, <<"Y","T","H","e","a","d","e","r","s">> >>) @@
    (<<"y","t","n","o","h","o","v","e","r","c","a","r","d","s">>        :> << <<"Y","o","u","T","u","b","e","H","e","a","d","e","r">> >>) @@
    (<<"y","t","a","b">>                  :> << <<"Y","o","u","T","u","b","e","H","e","a","d","e","r">> >>) @@
    (<<"y","t","n","o","s","h","o","r","t","s">>            :> << <<"Y","o","u","T","u","b","e","H","e","a","d","e","r">> >>) @@
    (<<"y","t","c","l","a","s","s","i","c","v","i","d","e","o","q","u","a","l","i","t","y">> :> << <<"Y","o","u","T","u","b","e","H","e","a","d","e","r">> >>) @@
    (<<"y","t","n","o","c","o","m","m","u","n","i","t","y","g","u","i","d","e","l","i","n","e","s","e","n","d","s","c","r","e","e","n">> :> << <<"Y","o","u","T","u","b","e","H","e","a","d","e","r">> >>)

HEADER_REPOS ==
    (<<"Y","o","u","T","u","b","e","H","e","a","d","e","r">> :> "https://github.com/PoomSmart/YouTubeHeader.git") @@
    (<<"P","S","H","e","a","d","e","r">>      :> "https://github.com/PoomSmart/PSHeader.git") @@
    (<<"Y","T","H","e","a","d","e","r","s">>     :> "https://github.com/therealFoxster/YTHeaders.git")

HAS_RELEASES == { <<"y","t","l","i","t","e">>, <<"r","e","t","u","r","n","y","o","u","t","u","b","e","d","i","s","l","i","k","e","s">> }

SPECIAL_BUILD_CMDS ==
    (<<"y","t","u","h","d">> :> "make clean package DEBUG=0 FINALPACKAGE=1 SIDELOAD=1")

APPEX_REPOS == { <<"y","o","u","t","u","b","e","e","x","t","e","n","s","i","o","n","s">>, <<"o","p","e","n","y","o","u","t","u","b","e","s","a","f","a","r","i","e","x","t","e","n","s","i","o","n">> }

SKIPPED_TWEAKS ==
    (<<"y","o","u","t","i","m","e","s","t","a","m","p">> :> "incompatible with current YouTubeHeader (tintImage:color: and createButton:accessibilityLabel:selector: removed)")

DEB_FILTERS ==
    (<<"y","t","l","i","t","e">> :> [deb_filter |-> "iphoneos-arm64", deb_exclude |-> "roothide"]) @@
    (<<"r","e","t","u","r","n","y","o","u","t","u","b","e","d","i","s","l","i","k","e","s">> :> [deb_exclude |-> "roothide"])

PRE_BUILD_CMDS ==
    (<<"y","o","u","t","i","m","e","s","t","a","m","p">> :> "sed -i '' 's/initYTVideoOverlay(TweakKey);/initYTVideoOverlay(TweakKey, nil);/' Tweak.x")

-----------------------------------------------------------------------------
(* Utility functions.                                                      *)

\* normalize_id with the replace(".", "") call left out
normalize_id_keeps_dot(r) ==
    Lower(Remove(Remove(SplitLast(r), "-"), "_"))

normalize_id(r) ==
    Lower(Remove(Remove(Remove(SplitLast(r), "-"), "_"), "."))

make_id(r) == normalize_id(r)

-----------------------------------------------------------------------------
(* analyze_tweak.                                                          *)

analyze_tweak(r) ==
    LET tweak_id   == make_id(r)
        fetch      == IF tweak_id \in HAS_RELEASES THEN "release"
                      ELSE IF tweak_id \in APPEX_REPOS THEN "appex"
                      ELSE "build"
        build_cmd  == Get(SPECIAL_BUILD_CMDS, tweak_id, DEFAULT_BUILD_CMD)
        depends_on == Get(KNOWN_DEPENDENCIES, tweak_id, <<>>)
        headers    == Get(HEADER_DEPENDENCIES, tweak_id, << <<"Y","o","u","T","u","b","e","H","e","a","d","e","r">> >>)
        deb_opts   == Get(DEB_FILTERS, tweak_id, EmptyDict)
        has_pre    == tweak_id \in DOMAIN PRE_BUILD_CMDS
        base       == [id |-> tweak_id, repo |-> r, fetch |-> fetch]
        with_cmd   == IF fetch = "build"
                      THEN base @@ [build_cmd |-> build_cmd] ELSE base
        with_flt   == IF fetch = "release" /\ "deb_filter" \in DOMAIN deb_opts
                      THEN with_cmd @@ [deb_filter |-> deb_opts.deb_filter]
                      ELSE with_cmd
        with_exc   == IF fetch = "release" /\ "deb_exclude" \in DOMAIN deb_opts
                      THEN with_flt @@ [deb_exclude |-> deb_opts.deb_exclude]
                      ELSE with_flt
        with_deps  == IF depends_on # <<>>
                      THEN with_exc @@ [depends_on |-> depends_on] ELSE with_exc
        with_pre   == IF has_pre
                      THEN with_deps @@ [pre_build_cmd |-> PRE_BUILD_CMDS[tweak_id]]
                      ELSE with_deps
    IN  IF headers # <<>> THEN with_pre @@ [headers |-> headers] ELSE with_pre

-----------------------------------------------------------------------------
(* topological_sort, statement by statement.                               *)

\* all_ids after the loop over configs
IdsOf(cfgs) == {cfgs[i].id : i \in DOMAIN cfgs}

\* graph after the loop over configs: a later record of the same id overwrites
GraphOf(cfgs) ==
    [n \in IdsOf(cfgs) |->
        LET last == CHOOSE i \in DOMAIN cfgs :
                        /\ cfgs[i].id = n
                        /\ \A j \in DOMAIN cfgs : cfgs[j].id = n => j <= i
        IN  Range(Get(cfgs[last], "depends_on", <<>>))]

\* in_degree = {node: len(graph[node]) for node in all_ids}
InDegreeOf(g, ids) == [n \in ids |-> Cardinality(g[n])]

\* the nodes of [node for node in all_ids if in_degree[node] == 0]
SeedNodes(ids, deg) == {n \in ids : deg[n] = 0}

\* the seeding with the records' ids listed instead of the set all_ids
SeedOrders_fromList(cfgs, ids, deg) ==
    {SelectSeq([i \in DOMAIN cfgs |-> cfgs[i].id], LAMBDA n : deg[n] = 0)}

\* queue = [node for node in all_ids if in_degree[node] == 0], in any iteration order
SeedOrders(cfgs, ids, deg) == IterOrders(SeedNodes(ids, deg))

\* queue.pop(0) with the queue.sort() before it left out
PopFront_unsorted(q) == [node |-> Head(q), rest |-> Tail(q)]

\* queue.sort(); node = queue.pop(0)
PopFront(q) == LET s == SortList(q) IN [node |-> Head(s), rest |-> Tail(s)]

\* in_degree after the for loop over all_ids
Decrement(g, ids, deg, node) ==
    [o \in ids |-> IF node \in g[o] THEN deg[o] - 1 ELSE deg[o]]

\* the appends of the for loop with the test in_degree[other] == 0 left out
NewlyReady_unchecked(g, ids, deg, node) == {o \in ids : node \in g[o]}

\* the nodes the for loop appends to queue
NewlyReady(g, ids, deg, node) ==
    {o \in ids : node \in g[o] /\ Decrement(g, ids, deg, node)[o] = 0}

\* the return with the partial result kept on a length mismatch
Finish_partial(res, ids) ==
    [order |-> res, warned |-> Len(res) # Cardinality(ids)]

\* if len(result) != len(all_ids): warn, return sorted(all_ids); else return result
Finish(res, ids) ==
    IF Len(res) # Cardinality(ids)
    THEN [order |-> Sorted(ids), warned |-> TRUE]
    ELSE [order |-> res, warned |-> FALSE]

\* the while loop, with all_ids iterated in ascending order
RECURSIVE KahnLoop(_, _, _, _, _)
KahnLoop(g, ids, deg, q, res) ==
    IF q = <<>> THEN res
    ELSE LET p == PopFront(q)
         IN  KahnLoop(g, ids, Decrement(g, ids, deg, p.node),
                      p.rest \o Sorted(NewlyReady(g, ids, deg, p.node)),
                      Append(res, p.node))

\* topological_sort(configs) as a whole: [order, warned]
topological_sort(cfgs) ==
    LET ids == IdsOf(cfgs)
        g   == GraphOf(cfgs)
        deg == InDegreeOf(g, ids)
    IN  Finish(KahnLoop(g, ids, deg, Sorted(SeedNodes(ids, deg)), <<>>), ids)

\* lines 212-225: graph, all_ids, in_degree, the seeded queue, the empty result
TopoBuild ==
    /\ pc = "topo_start"
    /\ all_ids' = IdsOf(configs)
    /\ graph' = GraphOf(configs)
    /\ in_degree' = InDegreeOf(graph', all_ids')
    /\ \E q \in SeedOrders(configs, all_ids', in_degree') :
           /\ queue' = q
           /\ enq' = [n \in all_ids' |->
                         Cardinality({i \in DOMAIN q : q[i] = n})]
    /\ out' = [n \in all_ids' |-> 0]
    /\ result' = <<>>
    /\ pc' = "topo_loop"
    /\ UNCHANGED <<configs, ret, warned, nvars, hvars, mvars>>

\* lines 227-237: one iteration of the while loop
TopoStep ==
    /\ pc = "topo_loop"
    /\ queue # <<>>
    /\ LET p     == PopFront(queue)
           ready == NewlyReady(graph, all_ids, in_degree, p.node)
       IN  /\ result' = Append(result, p.node)
           /\ out' = [out EXCEPT ![p.node] = @ + 1]
           /\ in_degree' = Decrement(graph, all_ids, in_degree, p.node)
           /\ \E order \in IterOrders(ready) : queue' = p.rest \o order
           /\ enq' = [n \in all_ids |-> IF n \in ready THEN enq[n] + 1 ELSE enq[n]]
    /\ UNCHANGED <<pc, configs, graph, all_ids, ret, warned, nvars, hvars, mvars>>

\* lines 239-243: the loop has ended; warn and fall back, or return result
TopoFinish ==
    /\ pc = "topo_loop"
    /\ queue = <<>>
    /\ ret' = Finish(result, all_ids).order
    /\ warned' = Finish(result, all_ids).warned
    /\ pc' = "topo_done"
    /\ UNCHANGED <<configs, graph, all_ids, in_degree, queue, result, enq, out,
                   nvars, hvars, mvars>>

-----------------------------------------------------------------------------
(* collect_all_headers and the header mapping of main.                     *)

\* the headers of all records concatenated and sorted, duplicates kept
RECURSIVE collect_all_headers_list(_)
collect_all_headers_list(cfgs) ==
    IF cfgs = <<>> THEN <<>>
    ELSE SortList(Get(Head(cfgs), "headers", <<>>)
                  \o collect_all_headers_list(Tail(cfgs)))

collect_all_headers(cfgs) ==
    Sorted(UNION {Range(Get(cfgs[i], "headers", <<>>)) : i \in DOMAIN cfgs})

\* header_config after the loop over required_headers
HeaderConfig(required) ==
    [h \in Range(required) \cap DOMAIN HEADER_REPOS |-> HEADER_REPOS[h]]

-----------------------------------------------------------------------------
(* main, statement by statement.                                           *)

\* the active list when the raw reference is looked up in SKIPPED_TWEAKS
ActiveOf_rawLookup(l) ==
    SelectSeq(l, LAMBDA r : r \notin DOMAIN SKIPPED_TWEAKS)

\* active_tweakslist after the filter loop
ActiveOf(l) ==
    SelectSeq(l, LAMBDA r : make_id(r) \notin DOMAIN SKIPPED_TWEAKS)

\* skipped after the filter loop
SkippedOf(l) ==
    LET s == SelectSeq(l, LAMBDA r : make_id(r) \in DOMAIN SKIPPED_TWEAKS)
    IN  [i \in DOMAIN s |-> <<s[i], SKIPPED_TWEAKS[make_id(s[i])]>>]

\* the except clause leaving the loop and going on with the records built so far
OnAnalyzeError_break == [pc |-> "main_plan", exit_status |-> -1]

\* except Exception: print the failure, sys.exit(1)
OnAnalyzeError == [pc |-> "main_exit", exit_status |-> 1]

\* the output document assembled before the save
OutputDoc ==
    [tweakslist  |-> tweakslist,
     config      |-> configs,
     build_order |-> build_order,
     headers     |-> header_config,
     metadata    |-> [total_tweaks          |-> Len(tweakslist),
                      successfully_analyzed |-> Len(configs),
                      required_headers      |-> required_headers]]

\* lines 266-280: the file must exist and hold a non-empty tweakslist
MainLoad ==
    /\ pc = "main_start"
    /\ IF ~file_exists
       THEN /\ exit_status' = 1
            /\ pc' = "main_exit"
            /\ UNCHANGED tweakslist
       ELSE LET l == Get(disk, "tweakslist", <<>>)
            IN  IF l = <<>>
                THEN /\ exit_status' = 1
                     /\ pc' = "main_exit"
                     /\ UNCHANGED tweakslist
                ELSE /\ tweakslist' = l
                     /\ pc' = "main_filter"
                     /\ UNCHANGED exit_status
    /\ UNCHANGED <<file_exists, disk, disk0, skipped, build_order, raised,
                   configs, nvars, tvars, hvars>>

\* lines 282-301: the known-broken tweaks leave the list
MainFilter ==
    /\ pc = "main_filter"
    /\ skipped' = SkippedOf(tweakslist)
    /\ tweakslist' = ActiveOf(tweakslist)
    /\ pc' = IF tweakslist' = <<>> THEN "main_plan" ELSE "main_analyze"
    /\ UNCHANGED <<file_exists, disk, disk0, build_order, exit_status, raised,
                   configs, nvars, tvars, hvars>>

\* lines 303-311: one iteration of the analysis loop; analyze_tweak may raise
MainAnalyze ==
    /\ pc = "main_analyze"
    /\ Len(configs) < Len(tweakslist)
    /\ \E fails \in BOOLEAN :
         IF fails
         THEN /\ raised' = TRUE
              /\ pc' = OnAnalyzeError.pc
              /\ exit_status' = OnAnalyzeError.exit_status
              /\ UNCHANGED configs
         ELSE /\ configs' = Append(configs, analyze_tweak(tweakslist[Len(configs) + 1]))
              /\ pc' = IF Len(configs') = Len(tweakslist)
                       THEN "main_plan" ELSE "main_analyze"
              /\ UNCHANGED <<raised, exit_status>>
    /\ UNCHANGED <<file_exists, disk, disk0, tweakslist, skipped, build_order,
                   nvars, tvars, hvars>>

\* lines 315-326: the build order, the required headers and their locations
MainPlan ==
    /\ pc = "main_plan"
    /\ build_order' = topological_sort(configs).order
    /\ warned' = topological_sort(configs).warned
    /\ required_headers' = collect_all_headers(configs)
    /\ header_config' = HeaderConfig(required_headers')
    /\ pc' = "main_save"
    /\ UNCHANGED <<file_exists, disk, disk0, tweakslist, skipped, exit_status,
                   raised, configs, nvars, graph, all_ids, in_degree, queue,
                   result, ret, enq, out>>

\* lines 334-354: config.json is overwritten and main returns
MainSave ==
    /\ pc = "main_save"
    /\ disk' = OutputDoc
    /\ exit_status' = 0
    /\ pc' = "main_exit"
    /\ UNCHANGED <<file_exists, disk0, tweakslist, skipped, build_order, raised,
                   configs, nvars, tvars, hvars>>

-----------------------------------------------------------------------------
(* Inputs and specifications.                                              *)

\* all strings of at most n characters of A
StringsUpTo(n, A) == UNION {[1..k -> A] : k \in 0..n}

NormalizeIdle == repo = <<>> /\ norm_once = <<>> /\ norm_twice = <<>>

TopoIdle ==
    /\ graph = <<>> /\ all_ids = {} /\ in_degree = <<>> /\ queue = <<>>
    /\ result = <<>> /\ ret = <<>> /\ warned = FALSE /\ enq = <<>> /\ out = <<>>

HeadersIdle == required_headers = <<>> /\ header_config = <<>>

MainIdle ==
    /\ file_exists = FALSE /\ disk = <<>> /\ disk0 = <<>> /\ tweakslist = <<>>
    /\ skipped = <<>> /\ build_order = <<>> /\ exit_status = -1 /\ raised = FALSE

(* normalize_id applied once, then to its own result *)

RepoChars == {"/", "-", "_", ".", "A", "a", "B"}

InitNormalize ==
    /\ pc = "norm_start"
    /\ repo \in StringsUpTo(MaxLen, RepoChars)
    /\ norm_once = <<>> /\ norm_twice = <<>>
    /\ configs = <<>>
    /\ TopoIdle /\ HeadersIdle /\ MainIdle

NormalizeOnce ==
    /\ pc = "norm_start"
    /\ norm_once' = normalize_id(repo)
    /\ pc' = "norm_once"
    /\ UNCHANGED <<repo, norm_twice, configs, tvars, hvars, mvars>>

NormalizeTwice ==
    /\ pc = "norm_once"
    /\ norm_twice' = normalize_id(norm_once)
    /\ pc' = "norm_twice"
    /\ UNCHANGED <<repo, norm_once, configs, tvars, hvars, mvars>>

NextNormalize == NormalizeOnce \/ NormalizeTwice

SpecNormalize == InitNormalize /\ [][NextNormalize]_vars

(* topological_sort on any list of records *)

TopoIds == { <<"a">>, <<"b">>, <<"c">> }

\* depends_on lists that name one or two distinct ids, in ascending order
PlainDepLists ==
    {<<x>> : x \in TopoIds}
    \cup {p \in TopoIds \X TopoIds : StrLess(p[1], p[2])}

\* depends_on lists of one or two names in any order, a name possibly repeated
DepLists == {<<x>> : x \in TopoIds} \cup {<<x, y>> : x, y \in TopoIds}

\* records with an id and, optionally, a depends_on list of L
ConfigsOver(L) ==
    {[id |-> i] : i \in TopoIds}
    \cup {[id |-> i, depends_on |-> l] : i \in TopoIds, l \in L}

InitTopo ==
    /\ pc = "topo_start"
    /\ \/ \E k \in 0..MaxConfigs : configs \in [1..k -> ConfigsOver(PlainDepLists)]
       \/ \E k \in 0..MaxDupConfigs : configs \in [1..k -> ConfigsOver(DepLists)]
    /\ NormalizeIdle /\ TopoIdle /\ HeadersIdle /\ MainIdle

NextTopo == TopoBuild \/ TopoStep \/ TopoFinish

SpecTopo == InitTopo /\ [][NextTopo]_vars

(* collect_all_headers and the header mapping on any list of records *)

HeaderNames == { <<"Y","o","u","T","u","b","e","H","e","a","d","e","r">>, <<"P","S","H","e","a","d","e","r">>, <<"A","l","t","H","e","a","d","e","r">> }

HeaderLists ==
    {<<x>> : x \in HeaderNames} \cup {<<x, y>> : x, y \in HeaderNames}

HeaderConfigs ==
    {[id |-> <<"a">>]} \cup {[id |-> <<"a">>, headers |-> l] : l \in HeaderLists}

InitHeaders ==
    /\ pc = "hdr_start"
    /\ configs \in UNION {[1..k -> HeaderConfigs] : k \in 0..MaxHdrCfgs}
    /\ NormalizeIdle /\ TopoIdle /\ HeadersIdle /\ MainIdle

\* lines 246-252 and 322
CollectAllHeaders ==
    /\ pc = "hdr_start"
    /\ required_headers' = collect_all_headers(configs)
    /\ pc' = "hdr_collected"
    /\ UNCHANGED <<header_config, configs, nvars, tvars, mvars>>

\* lines 323-326
BuildHeaderConfig ==
    /\ pc = "hdr_collected"
    /\ header_config' = HeaderConfig(required_headers)
    /\ pc' = "hdr_mapped"
    /\ UNCHANGED <<required_headers, configs, nvars, tvars, mvars>>

NextHeaders == CollectAllHeaders \/ BuildHeaderConfig

SpecHeaders == InitHeaders /\ [][NextHeaders]_vars

(* main on any config.json *)

RefPool ==
    { <<"a","r","i","c","h","o","r","n","l","o","v","e","r","/","Y","o","u","T","i","m","e","S","t","a","m","p">>, <<"Y","o","u","_","T","i","m","e","-","S","t","a","m","p">>, <<"P","o","o","m","S","m","a","r","t","/","Y","o","u","P","i","P">>,
      <<"P","o","o","m","S","m","a","r","t","/","Y","T","V","i","d","e","o","O","v","e","r","l","a","y">>, <<"d","a","y","a","n","c","h","/","Y","T","L","i","t","e">>, <<"P","o","o","m","S","m","a","r","t","/","Y","T","U","H","D">>,
      <<"C","o","k","e","P","o","k","e","s","/","Y","o","u","t","u","b","e","E","x","t","e","n","s","i","o","n","s">>, <<"o","w","n","e","r","/","N","e","w",".","T","w","e","a","k">> }

InputDocs ==
    {[description |-> "no list"]}
    \cup {[tweakslist |-> l] : l \in UNION {[1..k -> RefPool] : k \in 0..MaxTweaks}}

Init ==
    /\ pc = "main_start"
    /\ file_exists \in BOOLEAN
    /\ disk \in (IF file_exists THEN InputDocs ELSE {EmptyDict})
    /\ disk0 = disk
    /\ tweakslist = <<>> /\ skipped = <<>> /\ build_order = <<>>
    /\ exit_status = -1 /\ raised = FALSE
    /\ configs = <<>>
    /\ NormalizeIdle /\ TopoIdle /\ HeadersIdle

Next == MainLoad \/ MainFilter \/ MainAnalyze \/ MainPlan \/ MainSave

Spec == Init /\ [][Next]_vars

-----------------------------------------------------------------------------
(* Properties of topological_sort (checked under SpecTopo).                *)

\* the position of x in the list s
Pos(s, x) == CHOOSE i \in DOMAIN s : s[i] = x

\* s is strictly ascending in the order of Python strings
Ascending(s) == \A i, j \in DOMAIN s : i < j => StrLess(s[i], s[j])

\* the nodes of S reached from the set X by one or more depends_on edges inside S
RECURSIVE ReachedFrom(_, _, _, _)
ReachedFrom(S, g, X, seen) ==
    LET step == (UNION {g[x] : x \in X}) \cap S
    IN  IF step \subseteq seen THEN seen
        ELSE ReachedFrom(S, g, step \ seen, seen \cup step)

\* some node of S depends, directly or through others of S, on itself
HasCycle(S, g) == \E n \in S : n \in ReachedFrom(S, g, {n}, {})

\* the ids not in done whose declared dependencies are all in done
Ready(done) == {n \in all_ids \ done : graph[n] \subseteq done}

\* the permutations of the positions of a list
Perms(D) == {p \in [D -> D] : \A i, j \in D : p[i] = p[j] => i = j}

\* records of the same id declare the same set of dependencies
OneGraphPerId ==
    \A i, j \in DOMAIN configs :
        configs[i].id = configs[j].id =>
            Range(Get(configs[i], "depends_on", <<>>))
              = Range(Get(configs[j], "depends_on", <<>>))

\* C1: when the depends_on declarations are acyclic, the returned ordering
\* holds every declared dependency of every record, before that record.
C1_DependenciesFirst ==
    (pc = "topo_done" /\ ~HasCycle(all_ids, graph)) =>
        \A n \in all_ids : \A d \in graph[n] :
            d \in Range(ret) /\ Pos(ret, d) < Pos(ret, n)

\* C2: when the depends_on declarations contain a cycle (a self-dependency
\* included), the returned list is all record ids in ascending order, each
\* once, and the circular-dependency warning was printed.
C2_CycleFallsBack ==
    (pc = "topo_done" /\ HasCycle(all_ids, graph)) =>
        /\ warned
        /\ Range(ret) = IdsOf(configs)
        /\ Ascending(ret)

C2_Witness ==
    /\ pc = "topo_done"
    /\ HasCycle(all_ids, graph)
    /\ Cardinality(all_ids) = 3
    /\ result # <<>>
    /\ ret # result

\* C3: when the fallback path is taken (the warning is printed), a dependency
\* cycle exists among the ids the loop did not process.
C3_FallbackMeansCycle ==
    (pc = "topo_done" /\ warned) => HasCycle(all_ids \ Range(result), graph)

\* C4 as stated: the returned ordering is the one topological_sort returns for
\* the same records supplied in any other order, whatever the iteration orders.
C4_SameForAnyRecordOrder ==
    pc = "topo_done" =>
        \A p \in Perms(DOMAIN configs) :
            topological_sort([i \in DOMAIN configs |-> configs[p[i]]]).order = ret

\* C4 amended: the same, for lists in which records of the same id declare
\* the same dependencies.
C4_SameForAnyOrderOfOneGraph ==
    (pc = "topo_done" /\ OneGraphPerId) =>
        \A p \in Perms(DOMAIN configs) :
            topological_sort([i \in DOMAIN configs |-> configs[p[i]]]).order = ret

C4_Witness ==
    /\ pc = "topo_done"
    /\ OneGraphPerId
    /\ ~warned
    /\ Cardinality(all_ids) = 3
    /\ ret # [i \in DOMAIN configs |-> configs[i].id]
    /\ ret # Sorted(all_ids)

\* C9: at the head of every loop iteration the frontier holds exactly the ready
\* ids not yet output, each once; and a list returned without the fallback has,
\* at each position, the smallest of the ids that are ready after the earlier
\* positions.
C9_SmallestReadyFirst ==
    /\ pc = "topo_loop" =>
          /\ Range(queue) = Ready(Range(result))
          /\ Len(queue) = Cardinality(Range(queue))
    /\ (pc = "topo_done" /\ ~warned) =>
          \A i \in DOMAIN ret :
              LET before == {ret[j] : j \in 1..(i - 1)}
              IN  /\ ret[i] \in Ready(before)
                  /\ \A x \in Ready(before) : x = ret[i] \/ StrLess(ret[i], x)

C9_Witness ==
    /\ pc = "topo_done"
    /\ ~warned
    /\ configs = << [id |-> <<"c">>, depends_on |-> << <<"a">> >>],
                    [id |-> <<"b">>, depends_on |-> << <<"a">> >>],
                    [id |-> <<"a">>] >>
    /\ ret = << <<"a">>, <<"b">>, <<"c">> >>

\* C10: the returned list holds every distinct record id exactly once and
\* nothing else, on both paths; no in-degree is ever negative and no id is
\* appended to the result or to the frontier more than once.
C10_EachIdOnce ==
    /\ pc \in {"topo_loop", "topo_done"} =>
          \A n \in all_ids : in_degree[n] >= 0 /\ enq[n] <= 1 /\ out[n] <= 1
    /\ pc = "topo_done" =>
          /\ Range(ret) = IdsOf(configs)
          /\ Len(ret) = Cardinality(IdsOf(configs))

C10_Witness ==
    /\ pc = "topo_done"
    /\ ~warned
    /\ Len(configs) > Cardinality(all_ids)
    /\ \E i \in DOMAIN configs :
           LET l == Get(configs[i], "depends_on", <<>>)
           IN  Len(l) > Cardinality(Range(l))

-----------------------------------------------------------------------------
(* Properties of main (checked under Spec).                                *)

\* config.json has been overwritten
Written == disk # disk0

\* one of the failures the run must end on
InputMissing == ~file_exists \/ Get(disk0, "tweakslist", <<>>) = <<>>

\* C5: a written document holds no reference, build-order entry or record
\* whose normalized identifier is in SKIPPED_TWEAKS.
C5_SkippedNeverWritten ==
    Written =>
        /\ \A i \in DOMAIN disk.tweakslist :
               make_id(disk.tweakslist[i]) \notin DOMAIN SKIPPED_TWEAKS
        /\ \A i \in DOMAIN disk.build_order :
               disk.build_order[i] \notin DOMAIN SKIPPED_TWEAKS
        /\ \A i \in DOMAIN disk.config :
               disk.config[i].id \notin DOMAIN SKIPPED_TWEAKS

C5_Witness ==
    /\ Written
    /\ skipped # <<>>
    /\ Len(disk.config) >= 2
    /\ Len(disk0.tweakslist) = Len(disk.config) + Len(skipped)

\* C6: a missing file, an empty list or a failed resolution ends the run with
\* exit status 1 and config.json as it was; config.json is written only after
\* every active item was resolved and the order and headers were computed.
C6_FailFastNoPartialOutput ==
    /\ InputMissing => pc \in {"main_start", "main_exit"} /\ ~Written
    /\ raised => pc = "main_exit" /\ ~Written
    /\ (pc = "main_exit" /\ (InputMissing \/ raised)) => exit_status = 1
    /\ Written =>
          /\ pc = "main_exit" /\ exit_status = 0
          /\ Len(disk.config) = Len(disk.tweakslist)
          /\ disk.tweakslist = ActiveOf(disk0.tweakslist)
          /\ disk.build_order = build_order
          /\ disk.headers = header_config
          /\ Len(disk.build_order) = Cardinality({disk.config[i].id : i \in DOMAIN disk.config})

C6_Witness ==
    /\ pc = "main_exit"
    /\ raised
    /\ Len(configs) >= 1
    /\ exit_status = 1
    /\ ~Written

-----------------------------------------------------------------------------
(* Properties of the header aggregation (checked under SpecHeaders).       *)

\* C7: collect_all_headers returns the union of the records' headers in
\* ascending order without duplicates, and the mapping main builds has an
\* entry, the registry's location, for exactly the collected headers that are
\* keys of HEADER_REPOS.
C7_HeadersSortedAndMapped ==
    /\ pc \in {"hdr_collected", "hdr_mapped"} =>
          /\ Range(required_headers)
               = UNION {Range(Get(configs[i], "headers", <<>>)) : i \in DOMAIN configs}
          /\ Ascending(required_headers)
    /\ pc = "hdr_mapped" =>
          /\ DOMAIN header_config = Range(required_headers) \cap DOMAIN HEADER_REPOS
          /\ \A h \in DOMAIN header_config : header_config[h] = HEADER_REPOS[h]

C7_Witness ==
    /\ pc = "hdr_mapped"
    /\ Len(configs) = 2
    /\ Range(Get(configs[1], "headers", <<>>))
         \cap Range(Get(configs[2], "headers", <<>>)) # {}
    /\ <<"A","l","t","H","e","a","d","e","r">> \in Range(required_headers)
    /\ DOMAIN header_config # {}
    /\ <<"A","l","t","H","e","a","d","e","r">> \notin DOMAIN header_config

-----------------------------------------------------------------------------
(* Properties of normalize_id (checked under SpecNormalize).               *)

\* C8: normalize_id of a normalized identifier is that identifier, and a
\* normalized identifier holds none of "/", "-", "_", ".".
C8_NormalizeIdempotent ==
    /\ pc \in {"norm_once", "norm_twice"} =>
          \A i \in DOMAIN norm_once : norm_once[i] \notin {"/", "-", "_", "."}
    /\ pc = "norm_twice" => norm_twice = norm_once

C8_Witness ==
    /\ pc = "norm_twice"
    /\ Len(repo) = 3
    /\ repo[1] = "/"
    /\ "." \in Range(repo)
    /\ norm_once = <<"a">>
    /\ norm_twice = norm_once

=============================================================================
